---- MODULE Spec2Model ----
(***************************************************************************)
(* Model of settings.py, the Tk configuration editor of the Danilarious    *)
(* screensaver: loading config.json, discovering the SVG assets,           *)
(* reconciling the enabled characters, the Save and Preview handlers, the  *)
(* in-place rewrite of config.json and the renderer that reads that file   *)
(* on its own schedule.                                                    *)
(*                                                                         *)
(* Representation.  A JSON object is a function from its keys to values.   *)
(* A scalar value is represented by the text Python's str() gives for it   *)
(* ("1.0", "17", "pure-black", "False"); the one list-valued field,        *)
(* enabled_characters, is a record [list, items] so that a value that is   *)
(* not a list can be told apart.  A Tk variable holds a Tcl string.        *)
(* Numbers are fixed-point tenths where arithmetic is needed.              *)
(***************************************************************************)
EXTENDS Integers, Sequences, FiniteSets, TLC

\* ---------------------------------------------------------------- bounds
MaxEdits == 1       \* most control edits in one session
MaxChunks == 2      \* most flushes the serialised document is written in

\* ------------------------------------------------------------- documents
SchemaKeys ==
    {"speed", "population", "background_effect", "scale", "randomness",
     "cycle_settings", "bg_cycle_seconds", "lens_effect", "enabled_characters"}

ExtraKey == "future_key"

ListVal(items) == [list |-> TRUE, items |-> items]
NotAList == [list |-> FALSE, items |-> <<>>]

EmptyDoc == [k \in {} |-> ""]

DEFAULT_CONFIG ==
    [k \in SchemaKeys |->
        CASE k = "speed" -> "1.0"
          [] k = "population" -> "17"
          [] k = "background_effect" -> "pure-black"
          [] k = "scale" -> "1.0"
          [] k = "randomness" -> "0.5"
          [] k = "cycle_settings" -> "False"
          [] k = "bg_cycle_seconds" -> "10"
          [] k = "lens_effect" -> "none"
          [] OTHER -> ListVal(<<>>)]

\* dict.get(key, default)
Get(d, k, default) == IF k \in DOMAIN d THEN d[k] ELSE default

\* dict.update(new)
Update(d, new) ==
    [k \in (DOMAIN d) \cup (DOMAIN new) |-> IF k \in DOMAIN new THEN new[k] ELSE d[k]]

\* ------------------------------------------------------------ conversions
\* Texts that Python's float() and Tcl's getdouble accept, in tenths.
DoubleOf ==
    ("1.0" :> 10) @@ ("2.5" :> 25) @@ ("0.5" :> 5) @@ ("0.9" :> 9) @@ ("2.0" :> 20)
    @@ ("42.6" :> 426) @@ ("17.0" :> 170) @@ ("17" :> 170) @@ ("42" :> 420) @@ ("10" :> 100) @@ ("30" :> 300)

\* Texts that Python's int() and Tcl's getint accept.
IntOf == ("17" :> 17) @@ ("42" :> 42) @@ ("10" :> 10) @@ ("30" :> 30)

\* str() of a Python float, given in tenths
FloatRepr(t) ==
    CASE t = 10 -> "1.0" [] t = 25 -> "2.5" [] t = 5 -> "0.5" [] t = 9 -> "0.9"
      [] t = 20 -> "2.0" [] t = 426 -> "42.6" [] t = 170 -> "17.0" [] t = 420 -> "42.0"
      [] t = 100 -> "10.0" [] t = 300 -> "30.0"

\* str() of a Python int
IntRepr(n) == CASE n = 17 -> "17" [] n = 42 -> "42" [] n = 10 -> "10" [] n = 30 -> "30"

Ok(v) == [exc |-> "none", val |-> v]
Raise(e) == [exc |-> e, val |-> ""]

\* float(str(x)) and int(str(x)) on a loaded value: ValueError on other text
PyFloat(s) == IF s \in DOMAIN DoubleOf THEN Ok(FloatRepr(DoubleOf[s])) ELSE Raise("ValueError")
PyInt(s) == IF s \in DOMAIN IntOf THEN Ok(IntRepr(IntOf[s])) ELSE Raise("ValueError")

\* tkinter DoubleVar.get(): getdouble of the Tcl string, TclError otherwise
DoubleVar_get(s) ==
    IF s \in DOMAIN DoubleOf THEN Ok(FloatRepr(DoubleOf[s])) ELSE Raise("TclError")

\* tkinter IntVar.get(): getint, else int(getdouble(..)), TclError otherwise
IntVar_get(s) ==
    IF s \in DOMAIN IntOf THEN Ok(IntRepr(IntOf[s]))
    ELSE IF s \in DOMAIN DoubleOf THEN Ok(IntRepr(DoubleOf[s] \div 10))
    ELSE Raise("TclError")

\* bool(x) of a loaded JSON boolean, and str() of a Python bool
PyBool(s) == s = "True"
BoolRepr(b) == IF b THEN "True" ELSE "False"

\* ------------------------------------------------------------------ state
VARIABLES
    file,               \* what CONFIG_FILE holds: [kind, doc, by]
    assets_on_disk,     \* basenames glob yields for assets/*.svg, in its order
    pc,                 \* position of the session
    config_data,        \* self.config_data
    crash,              \* exception that escaped __init__, "none" otherwise
    available_assets,   \* self.available_assets
    char_vars,          \* self.char_vars: asset -> BooleanVar
    speed_var, population_var, scale_var, rand_var,
    bg_var, cycle_settings_var, bg_cycle_sec_var, lens_var,
    show_msg,           \* argument of the running save_config
    save_error,         \* branch save_config left by: none, empty, numeric, generic
    save_result,        \* value save_config returned: none (running), True, False
    message,            \* message box the running handler has shown
    spawned,            \* processes the running handler has started
    flushed,            \* flushes of the open file so far
    observed,           \* what the renderer last read from CONFIG_FILE
    edits,              \* control edits so far
    startFile,          \* CONFIG_FILE as load_config found it
    prevFile            \* CONFIG_FILE when the running handler was entered

controls ==
    <<speed_var, population_var, scale_var, rand_var,
      bg_var, cycle_settings_var, bg_cycle_sec_var, lens_var>>

handler == <<show_msg, save_error, save_result, message, spawned, flushed, prevFile>>

vars ==
    <<file, assets_on_disk, pc, config_data, crash, available_assets, char_vars,
      controls, handler, observed, edits, startFile>>

\* -------------------------------------------------------- the environment
Stale == "ghost.svg"

\* assets/ missing or without *.svg gives <<>>; glob's order is the file system's,
\* which need not be alphabetical
Catalogs == {<<>>, <<"a.svg">>, <<"b.svg", "a.svg">>}

File(kind, doc, by) == [kind |-> kind, doc |-> doc, by |-> by]

\* a complete document of an earlier session, with a key of a later schema
FullDoc(chars) ==
    Update(DEFAULT_CONFIG,
           ("speed" :> "2.5") @@ ("background_effect" :> "random") @@ ("population" :> "42") @@ ("bg_cycle_seconds" :> "30")
           @@ ("enabled_characters" :> chars) @@ (ExtraKey :> "x"))

\* an object that lacks most schema fields
SparseDoc == ("population" :> "42") @@ (ExtraKey :> "x")

\* an object whose speed is not a number
BadSpeedDoc == Update(FullDoc(ListVal(<<"a.svg">>)), ("speed" :> "abc"))

StartDocs ==
    {FullDoc(ListVal(c)) : c \in {<<>>, <<"a.svg">>, <<Stale>>, <<Stale, "a.svg">>}}
    \cup {FullDoc(NotAList), SparseDoc, BadSpeedDoc}

StartFiles ==
    {File("missing", EmptyDoc, "none"),
     File("unparsable", EmptyDoc, "other"),     \* not JSON
     File("nonobject", EmptyDoc, "other")}      \* JSON such as [] or 3
    \cup {File("object", d, "other") : d \in StartDocs}

Init ==
    /\ file \in StartFiles
    /\ assets_on_disk \in Catalogs
    /\ pc = "init"
    /\ config_data = EmptyDoc
    /\ crash = "none"
    /\ available_assets = <<>>
    /\ char_vars = [a \in {} |-> FALSE]
    /\ speed_var = "" /\ population_var = "" /\ scale_var = "" /\ rand_var = ""
    /\ bg_var = "" /\ cycle_settings_var = FALSE /\ bg_cycle_sec_var = "" /\ lens_var = ""
    /\ show_msg = TRUE
    /\ save_error = "none"
    /\ save_result = "none"
    /\ message = "none"
    /\ spawned = {}
    /\ flushed = 0
    /\ observed = "none"
    /\ edits = 0
    /\ startFile = file
    /\ prevFile = file

\* ------------------------------------------------------------ __init__
\* load_config: the value it returns, [kind, doc]
load_config(f) ==
    IF f.kind = "missing" THEN [kind |-> "object", doc |-> DEFAULT_CONFIG]
    ELSE IF f.kind \in {"object", "nonobject"} THEN [kind |-> f.kind, doc |-> f.doc]
    ELSE [kind |-> "object", doc |-> DEFAULT_CONFIG]

get_available_assets(dir) == dir

\* __init__, lines 38-44
saved_chars_of(cfg) ==
    LET v == Get(cfg, "enabled_characters", ListVal(<<>>))
    IN IF v.list THEN v.items ELSE <<>>

reconcile_skipped(cfg, assets) == cfg

reconcile(cfg, assets) ==
    IF Len(saved_chars_of(cfg)) = 0
    THEN Update(cfg, ("enabled_characters" :> ListVal(assets)))
    ELSE cfg

InSeq(x, s) == \E i \in 1..Len(s) : s[i] = x

\* build_chars_tab: one BooleanVar per catalogued asset
build_chars_tab(cfg, assets) ==
    [a \in {assets[i] : i \in 1..Len(assets)} |-> InSeq(a, saved_chars_of(cfg))]

\* build_config_tab: the conversions that can raise
tab_values(cfg) ==
    [speed |-> PyFloat(Get(cfg, "speed", "1.0")),
     population |-> PyInt(Get(cfg, "population", "17")),
     scale |-> PyFloat(Get(cfg, "scale", "1.0")),
     randomness |-> PyFloat(Get(cfg, "randomness", "0.5")),
     bg_cycle_seconds |-> PyInt(Get(cfg, "bg_cycle_seconds", "10"))]

tab_raises(cfg) == \E f \in DOMAIN tab_values(cfg) : tab_values(cfg)[f].exc # "none"

Construct ==
    /\ pc = "init"
    /\ LET ld == load_config(file)
           assets == get_available_assets(assets_on_disk)
       IN /\ available_assets' = assets
          /\ IF ld.kind # "object"
             THEN \* a list, string or number has no .get
                  /\ pc' = "crashed" /\ crash' = "AttributeError"
                  /\ config_data' = EmptyDoc
                  /\ UNCHANGED <<char_vars, controls>>
             ELSE LET cfg == reconcile(ld.doc, assets)
                      t == tab_values(cfg)
                  IN /\ config_data' = cfg
                     /\ IF tab_raises(cfg)
                        THEN /\ pc' = "crashed" /\ crash' = "ValueError"
                             /\ UNCHANGED <<char_vars, controls>>
                        ELSE /\ pc' = "editing" /\ crash' = "none"
                             /\ speed_var' = t.speed.val
                             /\ population_var' = t.population.val
                             /\ scale_var' = t.scale.val
                             /\ rand_var' = t.randomness.val
                             /\ cycle_settings_var' = PyBool(Get(cfg, "cycle_settings", "False"))
                             /\ bg_var' = Get(cfg, "background_effect", "pure-black")
                             /\ bg_cycle_sec_var' = t.bg_cycle_seconds.val
                             /\ lens_var' = Get(cfg, "lens_effect", "none")
                             /\ char_vars' = build_chars_tab(cfg, assets)
    /\ UNCHANGED <<file, assets_on_disk, handler, observed, edits, startFile>>

\* ------------------------------------------------------------- the controls
SliderTexts == {"1.0", "2.5"}               \* ttk.Scale writes a float
PopulationTexts == {"17.0", "42.6"}
ScaleTexts == {"1.0", "2.0"}
RandTexts == {"0.5", "0.9"}
bg_options == {"pure-black", "random"}
lens_options == {"none", "trails"}
EntryTexts == {"10", "30", "abc"}       \* ttk.Entry takes any text

\* a message box is modal: an edit follows its dismissal and the handler's return
Edit ==
    /\ pc = "editing"
    /\ edits < MaxEdits
    /\ edits' = edits + 1
    /\ show_msg' = TRUE
    /\ save_error' = "none" /\ save_result' = "none" /\ message' = "none"
    /\ spawned' = {} /\ flushed' = 0
    /\ prevFile' = file
    /\ UNCHANGED <<file, assets_on_disk, pc, config_data, crash, available_assets,
                   observed, startFile>>

ToggleChar ==
    /\ Edit
    /\ \E a \in DOMAIN char_vars : char_vars' = [char_vars EXCEPT ![a] = ~@]
    /\ UNCHANGED controls

SetSpeed ==
    /\ Edit
    /\ \E v \in SliderTexts \ {speed_var} : speed_var' = v
    /\ UNCHANGED <<char_vars, population_var, scale_var, rand_var, bg_var,
                   cycle_settings_var, bg_cycle_sec_var, lens_var>>

SetPopulation ==
    /\ Edit
    /\ \E v \in PopulationTexts \ {population_var} : population_var' = v
    /\ UNCHANGED <<char_vars, speed_var, scale_var, rand_var, bg_var,
                   cycle_settings_var, bg_cycle_sec_var, lens_var>>

SetScale ==
    /\ Edit
    /\ \E v \in ScaleTexts \ {scale_var} : scale_var' = v
    /\ UNCHANGED <<char_vars, speed_var, population_var, rand_var, bg_var,
                   cycle_settings_var, bg_cycle_sec_var, lens_var>>

SetRandomness ==
    /\ Edit
    /\ \E v \in RandTexts \ {rand_var} : rand_var' = v
    /\ UNCHANGED <<char_vars, speed_var, population_var, scale_var, bg_var,
                   cycle_settings_var, bg_cycle_sec_var, lens_var>>

SetBackground ==
    /\ Edit
    /\ \E v \in bg_options \ {bg_var} : bg_var' = v
    /\ UNCHANGED <<char_vars, speed_var, population_var, scale_var, rand_var,
                   cycle_settings_var, bg_cycle_sec_var, lens_var>>

ToggleCycleSettings ==
    /\ Edit
    /\ cycle_settings_var' = ~cycle_settings_var
    /\ UNCHANGED <<char_vars, speed_var, population_var, scale_var, rand_var,
                   bg_var, bg_cycle_sec_var, lens_var>>

\* update_cycle_visibility packs the entry only while the background is "random"
SetBgCycleSeconds ==
    /\ Edit
    /\ bg_var = "random"
    /\ \E v \in EntryTexts \ {bg_cycle_sec_var} : bg_cycle_sec_var' = v
    /\ UNCHANGED <<char_vars, speed_var, population_var, scale_var, rand_var,
                   bg_var, cycle_settings_var, lens_var>>

SetLens ==
    /\ Edit
    /\ \E v \in lens_options \ {lens_var} : lens_var' = v
    /\ UNCHANGED <<char_vars, speed_var, population_var, scale_var, rand_var,
                   bg_var, cycle_settings_var, bg_cycle_sec_var>>

\* ------------------------------------------------------------ save_config
chosen_chars_unfiltered(cv, assets) == assets

\* line 82: the checked assets, in the order char_vars was filled
chosen_chars(cv, assets) == SelectSeq(assets, LAMBDA a : a \in DOMAIN cv /\ cv[a])

\* lines 88-98: the casts, in source order
casts(sp, po, sc, ra, cs) ==
    <<DoubleVar_get(sp), IntVar_get(po), DoubleVar_get(sc), DoubleVar_get(ra), IntVar_get(cs)>>

first_exc(c) ==
    IF \A i \in 1..Len(c) : c[i].exc = "none" THEN "none"
    ELSE c[CHOOSE i \in 1..Len(c) :
              c[i].exc # "none" /\ \A j \in 1..(i - 1) : c[j].exc = "none"].exc

new_config(c, bg, cyc, lens, chosen) ==
    ("speed" :> c[1].val) @@ ("population" :> c[2].val) @@ ("scale" :> c[3].val)
    @@ ("randomness" :> c[4].val) @@ ("background_effect" :> bg)
    @@ ("cycle_settings" :> BoolRepr(cyc)) @@ ("bg_cycle_seconds" :> c[5].val)
    @@ ("lens_effect" :> lens) @@ ("enabled_characters" :> ListVal(chosen))

merged_config_keeping_chars(cfg, new) ==
    Update(cfg, [new EXCEPT !["enabled_characters"] =
                    ListVal(SelectSeq(saved_chars_of(cfg), LAMBDA x : ~InSeq(x, @.items))
                            \o @.items)])

merged_config_replacing(cfg, new) == new

\* line 99
merged_config(cfg, new) == Update(cfg, new)

save_branch_without_empty_check(chosen, exc) ==
    IF exc = "ValueError" THEN "numeric"
    ELSE IF exc # "none" THEN "generic"
    ELSE "proceed"

save_branch_casts_first(chosen, exc) ==
    IF exc = "ValueError" THEN "numeric"
    ELSE IF exc # "none" THEN "generic"
    ELSE IF Len(chosen) = 0 THEN "empty"
    ELSE "proceed"

\* lines 83-85 and 108-113: the branch save_config takes before it opens the file
save_branch(chosen, exc) ==
    IF Len(chosen) = 0 THEN "empty"
    ELSE IF exc = "ValueError" THEN "numeric"
    ELSE IF exc # "none" THEN "generic"
    ELSE "proceed"

error_box(branch) ==
    CASE branch = "empty" -> "error: You must select at least one character."
      [] branch = "numeric" -> "error: Invalid numeric values entered."
      [] branch = "generic" -> "error: Could not save config"

preview_next_unconditional(saved) == "launch_server"

\* line 116: preview_screensaver goes on to the launch only if save_config returned True
preview_next(saved) == IF saved THEN "launch_server" ELSE "editing"

Enter(msg) ==
    /\ pc = "editing"
    /\ pc' = "validate"
    /\ show_msg' = msg
    /\ save_error' = "none" /\ save_result' = "none" /\ message' = "none"
    /\ spawned' = {} /\ flushed' = 0
    /\ prevFile' = file
    /\ UNCHANGED <<file, assets_on_disk, config_data, crash, available_assets, char_vars,
                   controls, observed, edits, startFile>>

\* the Save Settings button: save_config()
ClickSave == Enter(TRUE)

\* the Preview button: preview_screensaver calls save_config(show_msg=False)
ClickPreview == Enter(FALSE)

\* save_config returns False
Fail(branch) ==
    /\ pc' = IF show_msg THEN "editing" ELSE preview_next(FALSE)
    /\ save_error' = branch
    /\ save_result' = "False"
    /\ message' = IF show_msg THEN error_box(branch) ELSE message

Validate ==
    /\ pc = "validate"
    /\ LET chosen == chosen_chars(char_vars, available_assets)
           c == casts(speed_var, population_var, scale_var, rand_var, bg_cycle_sec_var)
           branch == save_branch(chosen, first_exc(c))
       IN IF branch = "proceed"
          THEN /\ config_data' =
                      merged_config(config_data,
                                    new_config(c, bg_var, cycle_settings_var, lens_var, chosen))
               /\ pc' = "open"
               /\ UNCHANGED <<save_error, save_result, message>>
          ELSE /\ Fail(branch)
               /\ UNCHANGED config_data
    /\ UNCHANGED <<file, assets_on_disk, crash, available_assets, char_vars, controls,
                   show_msg, spawned, flushed, prevFile, observed, edits, startFile>>

\* line 101: open(CONFIG_FILE, 'w') truncates the file in place
OpenFile ==
    /\ pc = "open"
    /\ file' = File("empty", config_data, "editor")
    /\ pc' = "write"
    /\ UNCHANGED <<assets_on_disk, config_data, crash, available_assets, char_vars, controls,
                   handler, observed, edits, startFile>>

\* open raises OSError (read-only path): nothing is truncated
OpenFails ==
    /\ pc = "open"
    /\ Fail("generic")
    /\ UNCHANGED <<file, assets_on_disk, config_data, crash, available_assets, char_vars,
                   controls, show_msg, spawned, flushed, prevFile, observed, edits, startFile>>

\* line 102: a flush that leaves part of the serialised document unwritten
WritePart ==
    /\ pc = "write"
    /\ flushed + 1 < MaxChunks
    /\ flushed' = flushed + 1
    /\ file' = File("partial", config_data, "editor")
    /\ UNCHANGED <<assets_on_disk, pc, config_data, crash, available_assets, char_vars,
                   controls, show_msg, save_error, save_result, message, spawned, prevFile,
                   observed, edits, startFile>>

\* lines 102-107: the last flush and the close; save_config returns True
WriteLast ==
    /\ pc = "write"
    /\ flushed' = flushed + 1
    /\ file' = File("object", config_data, "editor")
    /\ save_result' = "True"
    /\ message' = IF show_msg THEN "info: Settings saved successfully!" ELSE message
    /\ pc' = IF show_msg THEN "editing" ELSE preview_next(TRUE)
    /\ UNCHANGED <<assets_on_disk, config_data, crash, available_assets, char_vars, controls,
                   show_msg, save_error, spawned, prevFile, observed, edits, startFile>>

\* a write or the close raises OSError (disk full): the file stays as far as it got
WriteFails ==
    /\ pc = "write"
    /\ Fail("generic")
    /\ UNCHANGED <<file, assets_on_disk, config_data, crash, available_assets, char_vars,
                   controls, show_msg, spawned, flushed, prevFile, observed, edits, startFile>>

\* ----------------------------------------------------- preview_screensaver
LaunchStep(to, proc, box) ==
    /\ pc' = to
    /\ spawned' = spawned \cup proc
    /\ message' = box
    /\ UNCHANGED <<file, assets_on_disk, config_data, crash, available_assets, char_vars,
                   controls, show_msg, save_error, save_result, flushed, prevFile, observed,
                   edits, startFile>>

\* line 120
SpawnServer == pc = "launch_server" /\ LaunchStep("launch_browser", {"server"}, message)

SpawnServerFails ==
    pc = "launch_server" /\ LaunchStep("editing", {}, "error: Failed to open preview")

\* line 130
SpawnBrowser == pc = "launch_browser" /\ LaunchStep("editing", {"browser"}, message)

SpawnBrowserFails ==
    pc = "launch_browser" /\ LaunchStep("editing", {}, "error: Failed to open preview")

\* ------------------------------------------------------------ the renderer
\* the screensaver reads CONFIG_FILE whenever it starts
RendererRead ==
    /\ observed' = file.kind
    /\ UNCHANGED <<file, assets_on_disk, pc, config_data, crash, available_assets, char_vars,
                   controls, handler, edits, startFile>>

Next ==
    \/ Construct
    \/ ToggleChar \/ SetSpeed \/ SetPopulation \/ SetScale \/ SetRandomness
    \/ SetBackground \/ ToggleCycleSettings \/ SetBgCycleSeconds \/ SetLens
    \/ ClickSave \/ ClickPreview \/ Validate
    \/ OpenFile \/ OpenFails \/ WritePart \/ WriteLast \/ WriteFails
    \/ SpawnServer \/ SpawnServerFails \/ SpawnBrowser \/ SpawnBrowserFails
    \/ RendererRead

Spec == Init /\ [][Next]_vars

\* ------------------------------------------------------------- properties
Saving == pc \in {"open", "write"}
Returned == pc = "editing" /\ save_result # "none"
Written == file.by = "editor" /\ file.kind = "object"

Checked == {a \in DOMAIN char_vars : char_vars[a]}
CheckedSeq == SelectSeq(available_assets, LAMBDA a : a \in Checked)
NoneChecked == Checked = {}

NonNumeric(s) == s \notin DOMAIN DoubleOf
SomeNonNumeric ==
    \E s \in {speed_var, population_var, scale_var, rand_var, bg_cycle_sec_var} : NonNumeric(s)

CharsOf(d) ==
    IF "enabled_characters" \in DOMAIN d /\ d["enabled_characters"].list
    THEN d["enabled_characters"].items ELSE <<>>

Elems(q) == {q[i] : i \in 1..Len(q)}

\* the document load_config hands to __init__
Loaded == load_config(startFile)

\* C1: every document the editor writes has a non-empty enabled_characters list; a
\* save attempted with no character checked takes the empty-selection branch,
\* returns False and leaves the file as it was.
C1_NonEmptySelectionPersisted ==
    /\ file.by = "editor" => Len(CharsOf(file.doc)) > 0
    /\ Saving => ~NoneChecked
    /\ (Returned /\ NoneChecked) =>
           save_result = "False" /\ save_error = "empty" /\ file = prevFile

C1_Witness ==
    /\ Returned /\ NoneChecked /\ save_error = "empty"
    /\ available_assets # <<>>
    /\ Written

C3_LaunchOnlyAfterSave ==
    /\ (pc \in {"launch_server", "launch_browser"} \/ spawned # {}) =>
           /\ ~show_msg
           /\ save_result = "True"
           /\ file = File("object", config_data, "editor")
    /\ save_result = "False" => (spawned = {} /\ pc = "editing")

C3_Witness == spawned = {"server", "browser"} /\ pc = "editing" /\ save_result = "True"

\* C4 as claimed (taken with at least one character checked): a save attempted
\* while a numeric control holds text that is no number leaves by the
\* numeric-format branch, and the file is as it was.
C4_NumericFormatError ==
    (Returned /\ SomeNonNumeric /\ ~NoneChecked) =>
        save_error = "numeric" /\ file = prevFile

\* C5 as claimed: the renderer never reads a zero-length or partly written
\* document; during a save the file is the previous or the new document, whole.
C5_NoTornDocument ==
    /\ observed \notin {"empty", "partial"}
    /\ Saving => (file = prevFile \/ file = File("object", config_data, "editor"))

\* C6 as claimed: without a file of the expected shape load_config gives the
\* compiled-in defaults and the session starts.
ExpectedShape(f) ==
    /\ f.kind = "object"
    /\ SchemaKeys \subseteq DOMAIN f.doc
    /\ ~tab_raises(f.doc)

C6_DefaultFallback ==
    (pc # "init" /\ ~ExpectedShape(startFile)) =>
        /\ Loaded.kind = "object"
        /\ Loaded.doc = DEFAULT_CONFIG
        /\ crash = "none"

\* C7: every key of the loaded document outside the nine schema fields is in each
\* document a save writes, with its value; a save adds only schema fields.
C7_ExtraKeysPreserved ==
    Written =>
        /\ \A k \in (DOMAIN Loaded.doc) \ SchemaKeys :
               k \in DOMAIN file.doc /\ file.doc[k] = Loaded.doc[k]
        /\ DOMAIN file.doc = (DOMAIN Loaded.doc) \cup SchemaKeys

C7_Witness ==
    /\ Written
    /\ ExtraKey \in DOMAIN Loaded.doc
    /\ file.doc # Loaded.doc

\* C8: with an empty catalog no Save or Preview returns True, opens the file or
\* launches anything, and the file stays as the session found it.
C8_EmptyCatalogNeverSaves ==
    (assets_on_disk = <<>> /\ pc # "init") =>
        /\ save_result # "True"
        /\ pc \in {"editing", "validate", "crashed"}
        /\ file = startFile
        /\ spawned = {}

C8_Witness ==
    /\ assets_on_disk = <<>>
    /\ Returned /\ ~show_msg /\ save_result = "False"
    /\ CharsOf(Loaded.doc) # <<>>

\* C9: __init__ replaces an empty, missing or non-list enabled_characters by the
\* catalog, in catalog order, and then every catalogued asset starts checked; a
\* non-empty list is left as loaded; with an empty catalog the list stays empty.
C9_Reconciliation ==
    [][(pc = "init" /\ pc' = "editing") =>
          LET loadedChars == CharsOf(load_config(file).doc)
          IN /\ DOMAIN char_vars' = Elems(assets_on_disk)
             /\ IF loadedChars = <<>>
                THEN /\ "enabled_characters" \in DOMAIN config_data'
                     /\ config_data'["enabled_characters"] = ListVal(assets_on_disk)
                     /\ \A a \in DOMAIN char_vars' : char_vars'[a]
                ELSE /\ config_data' = load_config(file).doc
                     /\ \A a \in DOMAIN char_vars' :
                            char_vars'[a] <=> a \in Elems(loadedChars)]_vars

C9_Witness ==
    /\ pc = "editing" /\ edits = 0 /\ save_result = "none"
    /\ "enabled_characters" \notin DOMAIN Loaded.doc
    /\ CharsOf(config_data) = <<"b.svg", "a.svg">>
    /\ Checked = {"a.svg", "b.svg"}

\* C10 as claimed: with a non-numeric control and no character checked the save
\* leaves by the numeric-format branch, and it leaves by the empty-selection branch
\* only when every numeric control holds a number.
C10_NumericCheckedFirst ==
    Returned =>
        /\ (SomeNonNumeric /\ NoneChecked) => save_error = "numeric"
        /\ save_error = "empty" => ~SomeNonNumeric

\* C10 as amended: the empty selection is checked before the casts: with no
\* character checked the save leaves by the empty-selection branch whatever the
\* numeric controls hold, and a failed cast is reported only when a character is
\* checked.
C10_EmptySelectionCheckedFirst ==
    Returned =>
        /\ NoneChecked => save_error = "empty"
        /\ (SomeNonNumeric /\ ~NoneChecked) => save_error \in {"numeric", "generic"}
        /\ save_error \in {"numeric", "generic"} => ~NoneChecked

C10_Witness ==
    /\ Returned /\ SomeNonNumeric /\ NoneChecked /\ save_error = "empty"
    /\ available_assets # <<>>

====
